---- MODULE Spec2Model ----
(***************************************************************************)
(* Model of the `work` package of shayanderson/go-project:                 *)
(*   - queue / Queue / ErrQueue  (src/internal/work/queue.go)              *)
(*   - Runner                    (src/unnamed/part_015, work.go)           *)
(* Goroutines are modelled as processes with a program counter; every Go   *)
(* channel operation is one step.  An unrecovered panic ends the program.  *)
(***************************************************************************)
EXTENDS Integers, Sequences, FiniteSets, TLC

\* ---------------------------------------------------------------- bounds
MaxWorkers == 2
MaxSize == 2
MaxJobs == 3
MaxRuns == 2
MaxClosers == 1
MaxTasks == 3
\* the invocation counters saturate here (0, 1, "more than once")
CountCap == 2

Runs == 1..MaxRuns
Slots == 1..MaxWorkers
Closers == 1..MaxClosers
Jobs == 1..MaxJobs
Tasks == 1..MaxTasks

\* the zero value of the job type: what a receive from a closed, drained
\* channel yields
ZeroJob == 0

\* ---------------------------------------------------------------- errors
\* error values; Nil is Go's nil error
Nil == [e |-> "nil", job |-> 0]
Canceled == [e |-> "context canceled", job |-> 0]
DeadlineExceeded == [e |-> "context deadline exceeded", job |-> 0]
ErrQueueClosed == [e |-> "queue is closed", job |-> 0]
ErrNoWorker == [e |-> "worker must be provided", job |-> 0]
\* the error the worker function returns for job j
WorkerErr(j) == [e |-> "worker error", job |-> j]
\* the error task t of a Runner returns
TaskErr(t) == [e |-> "task error", job |-> t]

VARIABLES
  \* --- queue[T] / Queue[T] / ErrQueue[T]
  options,       \* the Options handed to NewQueue / NewErrQueue
  kind,          \* "Queue" or "ErrQueue"
  worker,        \* TRUE when the worker function is non-nil
  nWorkers,      \* queue.nWorkers
  size,          \* cap(queue.queue)
  closed,        \* queue.closed (atomic.Bool)
  queue,         \* contents of the channel queue.queue
  queueClosed,   \* close(q.queue) has been executed
  sem,           \* number of values in the channel queue.sem
  semClosed,     \* close(q.sem) has been executed
  errors,        \* contents of the channel ErrQueue.errors
  errorsClosed,  \* close(q.errors) has been executed
  \* --- the caller's context handed to Run
  ctxErr,        \* ctx.Err() of the caller's context
  \* --- calls of Run
  runPc,         \* position of each Run call
  runErr,        \* ErrQueue.Run's local `err`
  runRet,        \* value returned by each Run call
  childErr,      \* Err() of the child context ErrQueue.Run derives
  \* --- worker loops (goroutines started by wg.Go)
  wpc,           \* position of worker loop <<r, w>>
  wjob,          \* the job that loop holds
  \* --- callers of the internal close()
  closePc,
  closeRet,
  runCloseRet,   \* result of the q.close() each Run call makes
  \* --- callers of Push
  nextJob,       \* the next job value a producer pushes
  pushRet,       \* result of Push for each job value
  \* --- observation of the worker function
  started,       \* number of invocations started, per job value
  finished,      \* number of invocations returned, per job value
  failed,        \* job values whose invocation returned an error
  firstPosted,   \* the first error sent on q.errors (Nil: none yet)
  postedLive,    \* the caller's context had not ended at that first send
  panic          \* "none", or the place of an unrecovered panic

qvars == <<options, kind, worker, nWorkers, size, closed, queue, queueClosed, sem,
           semClosed, errors, errorsClosed, ctxErr, runPc, runErr, runRet,
           childErr, wpc, wjob, closePc, closeRet, runCloseRet, nextJob,
           pushRet, started, finished, failed, firstPosted, postedLive,
           panic>>

\* --- Runner
VARIABLES
  parentErr,   \* Err() of the context handed to NewRunner
  gctxErr,     \* Err() of the derived context NewRunner returns
  gctxCause,   \* context.Cause of the derived context
  gerr,        \* Runner.err
  errOnce,     \* Runner.errOnce: "new", "running" (a Do is in its body), "done"
  wg,          \* Runner.wg: the WaitGroup counter
  tpc,         \* position of the goroutine of each task
  waitPc,      \* position of each call of Wait
  waitRet,     \* value returned by each call of Wait
  waitSaw,     \* the tasks launched before each call of Wait
  failOrder,   \* the failing tasks, in the order they report to errOnce.Do
  errWrites,   \* number of assignments to Runner.err
  gctxBy       \* what ended the derived context: "none", "parent", "cancel"

rvars == <<parentErr, gctxErr, gctxCause, gerr, errOnce, wg, tpc, waitPc,
           waitRet, waitSaw, failOrder, errWrites, gctxBy>>

\* --- Throttler
VARIABLES
  interval,    \* Throttler.interval
  lastRun,     \* Throttler.lastRun
  mu,          \* Throttler.mu: the caller holding the mutex, 0 when free
  clock,       \* the wall clock time.Now() reads
  apc,         \* position of each call of Allow
  anow,        \* the local `now` of each call
  aret,        \* the result of each call: "none", "true", "false"
  retAt,       \* the wall-clock instant at which each call returned
  aover,       \* the call ran while another call of Allow was in flight
  grants,      \* the `now` of the permitted calls, in the order permitted
  dpc,         \* position of each call of Do
  dcalls,      \* number of invocations of the fn handed to each call of Do
  doRet        \* the result of each call of Do: "none", "true", "false"

tvars == <<interval, lastRun, mu, clock, apc, anow, aret, retAt, aover,
           grants, dpc, dcalls, doRet>>

\* a saturating counter of the observer
Count(n) == IF n < CountCap THEN n + 1 ELSE n

\* ------------------------------------------------------------- newQueue
\* runtime.NumCPU()
NumCPU == 1

\* faulty variant of newQueue: the default size is taken from the option as given
newQueueRawWorkers(opts) ==
  LET w == IF opts.Workers <= 0 THEN NumCPU ELSE opts.Workers
      s == IF opts.Size <= 0 THEN opts.Workers * 4 ELSE opts.Size
  IN  [nWorkers |-> w, queueCap |-> s, semCap |-> w]

\* newQueue: the effective worker count and buffer capacity
newQueue(opts) ==
  LET w == IF opts.Workers <= 0 THEN NumCPU ELSE opts.Workers
      s == IF opts.Size <= 0 THEN w * 4 ELSE opts.Size
  IN  [nWorkers |-> w, queueCap |-> s, semCap |-> w]

\* NewErrQueue: errors has the capacity of the job buffer
NewErrQueueErrorsCap(q) == q.queueCap

\* ------------------------------------------------------------ contexts
\* the context Run call r and its worker loops observe: Queue.Run uses the
\* caller's context, ErrQueue.Run the child made by context.WithCancel
RunCtxErr(r) == IF kind = "Queue" THEN ctxErr ELSE childErr[r]

\* <-ctx.Done() is ready
CtxDone(r) == RunCtxErr(r) /= Nil

\* context.WithCancel(parent): a child of a cancelled parent is cancelled
WithCancel(perr) == perr

\* cancel() of a child context: the first cancellation decides Err()
CancelChild(err) == IF err = Nil THEN Canceled ELSE err

\* faulty variant of ParentAfterCancel: cancel() ends the parent context too
ParentAfterCancelEnds(perr) == IF perr = Nil THEN Canceled ELSE perr

\* Err() of the parent context after cancel() of a child made by
\* context.WithCancel: cancellation goes from parent to child only
ParentAfterCancel(perr) == perr

\* the child context of Run call r exists (Run got past its checks)
HasChild(r) == kind = "ErrQueue" /\ runPc[r] \notin {"idle", "rejected"}

\* the caller's context ends with condition e; children end with it
CtxCancel(e) ==
  /\ panic = "none"
  /\ ctxErr = Nil
  /\ ctxErr' = e
  /\ childErr' = [r \in Runs |->
                    IF HasChild(r) /\ childErr[r] = Nil THEN e
                    ELSE childErr[r]]
  /\ UNCHANGED <<options, kind, worker, nWorkers, size, closed, queue, queueClosed,
                 sem, semClosed, errors, errorsClosed, runPc, runErr, runRet,
                 wpc, wjob, closePc, closeRet, nextJob, pushRet, started,
                 finished, failed, firstPosted, postedLive, panic,
                 runCloseRet, rvars, tvars>>

\* ---------------------------------------------------------------- Push
\* faulty variant of PushOutcome: one job more than the capacity is accepted
PushOutcomeOneMore(buf, cap, isClosed) ==
  IF isClosed THEN "panic"
  ELSE IF Len(buf) <= cap THEN "true"
  ELSE "false"

\* the select of Push: a send on a closed channel panics, a send on a
\* channel with room proceeds, otherwise the default case is taken
PushOutcome(buf, cap, isClosed) ==
  IF isClosed THEN "panic"
  ELSE IF Len(buf) < cap THEN "true"
  ELSE "false"

Push(job) ==
  /\ panic = "none"
  /\ job = nextJob
  /\ job <= MaxJobs
  /\ nextJob' = nextJob + 1
  /\ LET out == PushOutcome(queue, size, queueClosed) IN
       /\ pushRet' = [pushRet EXCEPT ![job] = out]
       /\ queue' = IF out = "true" THEN Append(queue, job) ELSE queue
       /\ panic' = IF out = "panic" THEN "Push: send on closed channel"
                   ELSE panic
  /\ UNCHANGED <<options, kind, worker, nWorkers, size, closed, queueClosed, sem,
                 semClosed, errors, errorsClosed, ctxErr, runPc, runErr,
                 runRet, childErr, wpc, wjob, closePc, closeRet, started,
                 finished, failed, firstPosted, postedLive,
                 runCloseRet, rvars, tvars>>

\* --------------------------------------------------------------- close
\* faulty variant of CompareAndSwap: every caller is told it set the flag
CompareAndSwapAlways(flag) == TRUE

\* q.closed.CompareAndSwap(false, true): TRUE when this call set the flag
CompareAndSwap(flag) == ~flag

\* close() called directly (the tests do so), one step per statement
CloseCAS(c) ==
  /\ panic = "none"
  /\ closePc[c] = "idle"
  /\ closed' = TRUE
  /\ IF CompareAndSwap(closed)
       THEN closePc' = [closePc EXCEPT ![c] = "closeQueue"] /\ UNCHANGED closeRet
       ELSE /\ closePc' = [closePc EXCEPT ![c] = "done"]
            /\ closeRet' = [closeRet EXCEPT ![c] = "false"]
  /\ UNCHANGED <<options, kind, worker, nWorkers, size, queue, queueClosed, sem,
                 semClosed, errors, errorsClosed, ctxErr, runPc, runErr,
                 runRet, childErr, wpc, wjob, nextJob, pushRet, started,
                 finished, failed, firstPosted, postedLive, panic,
                 runCloseRet, rvars, tvars>>

CloseQueue(c) ==
  /\ panic = "none"
  /\ closePc[c] = "closeQueue"
  /\ IF queueClosed
       THEN panic' = "close of closed channel" /\ UNCHANGED <<queueClosed, closePc>>
       ELSE /\ queueClosed' = TRUE
            /\ closePc' = [closePc EXCEPT ![c] = "closeSem"]
            /\ UNCHANGED panic
  /\ UNCHANGED <<options, kind, worker, nWorkers, size, closed, queue, sem,
                 semClosed, errors, errorsClosed, ctxErr, runPc, runErr,
                 runRet, childErr, wpc, wjob, closeRet, nextJob, pushRet,
                 started, finished, failed, firstPosted, postedLive,
                 runCloseRet, rvars, tvars>>

CloseSem(c) ==
  /\ panic = "none"
  /\ closePc[c] = "closeSem"
  /\ IF semClosed
       THEN panic' = "close of closed channel" /\ UNCHANGED <<semClosed, closePc, closeRet>>
       ELSE /\ semClosed' = TRUE
            /\ closePc' = [closePc EXCEPT ![c] = "done"]
            /\ closeRet' = [closeRet EXCEPT ![c] = "true"]
            /\ UNCHANGED panic
  /\ UNCHANGED <<options, kind, worker, nWorkers, size, closed, queue, queueClosed,
                 sem, errors, errorsClosed, ctxErr, runPc, runErr, runRet,
                 childErr, wpc, wjob, nextJob, pushRet, started, finished,
                 failed, firstPosted, postedLive,
                 runCloseRet, rvars, tvars>>

\* ----------------------------------------------------------------- Run
\* faulty variant of RunCheck: the closed flag is not looked at
RunCheckIgnoresClosed(isClosed, hasWorker) ==
  IF ~hasWorker THEN ErrNoWorker ELSE Nil

\* faulty variant of RunCheck: a nil worker function is let through
RunCheckIgnoresWorker(isClosed, hasWorker) ==
  IF isClosed THEN ErrQueueClosed ELSE Nil

\* the checks at the head of Queue.Run and ErrQueue.Run
RunCheck(isClosed, hasWorker) ==
  IF isClosed THEN ErrQueueClosed
  ELSE IF ~hasWorker THEN ErrNoWorker
  ELSE Nil

\* the number of worker loops Run starts ("for range q.nWorkers")
SpawnCount(n) == n

\* Run call r: the checks, the child context (ErrQueue), and wg.Go for
\* every worker loop; the call then blocks on its context
RunStart(r) ==
  /\ panic = "none"
  /\ runPc[r] = "idle"
  /\ LET chk == RunCheck(closed, worker) IN
       IF chk /= Nil
         THEN /\ runPc' = [runPc EXCEPT ![r] = "rejected"]
              /\ runRet' = [runRet EXCEPT ![r] = chk]
              /\ UNCHANGED <<childErr, wpc>>
         ELSE /\ runPc' = [runPc EXCEPT ![r] = "wait"]
              /\ childErr' = [childErr EXCEPT ![r] =
                                IF kind = "ErrQueue" THEN WithCancel(ctxErr)
                                ELSE @]
              /\ wpc' = [x \in Runs \X Slots |->
                           IF x[1] = r /\ x[2] <= SpawnCount(nWorkers)
                             THEN "select" ELSE wpc[x]]
              /\ UNCHANGED runRet
  /\ UNCHANGED <<options, kind, worker, nWorkers, size, closed, queue, queueClosed,
                 sem, semClosed, errors, errorsClosed, ctxErr, runErr, wjob,
                 closePc, closeRet, nextJob, pushRet, started, finished,
                 failed, firstPosted, postedLive, panic,
                 runCloseRet, rvars, tvars>>

\* Queue.Run: <-ctx.Done()
QueueRunDone(r) ==
  /\ panic = "none"
  /\ kind = "Queue"
  /\ runPc[r] = "wait"
  /\ CtxDone(r)
  /\ runPc' = [runPc EXCEPT ![r] = "wgWait"]
  /\ UNCHANGED <<options, kind, worker, nWorkers, size, closed, queue, queueClosed,
                 sem, semClosed, errors, errorsClosed, ctxErr, runErr,
                 runRet, childErr, wpc, wjob, closePc, closeRet, nextJob,
                 pushRet, started, finished, failed, firstPosted, postedLive, panic,
                 runCloseRet, rvars, tvars>>

\* ErrQueue.Run: the select takes "case <-ctx.Done()"
ErrQueueRunDone(r) ==
  /\ panic = "none"
  /\ kind = "ErrQueue"
  /\ runPc[r] = "wait"
  /\ CtxDone(r)
  /\ runPc' = [runPc EXCEPT ![r] = "wgWait"]
  /\ UNCHANGED <<options, kind, worker, nWorkers, size, closed, queue, queueClosed,
                 sem, semClosed, errors, errorsClosed, ctxErr, runErr,
                 runRet, childErr, wpc, wjob, closePc, closeRet, nextJob,
                 pushRet, started, finished, failed, firstPosted, postedLive, panic,
                 runCloseRet, rvars, tvars>>

\* a receive on q.errors is ready: a buffered error, or the channel closed
ErrorsReady == errors /= <<>> \/ errorsClosed

\* ErrQueue.Run: the select takes "case err = <-q.errors", then cancel()
ErrQueueRunErr(r) ==
  /\ panic = "none"
  /\ kind = "ErrQueue"
  /\ runPc[r] = "wait"
  /\ ErrorsReady
  /\ runErr' = [runErr EXCEPT ![r] = IF errors /= <<>> THEN Head(errors) ELSE Nil]
  /\ errors' = IF errors /= <<>> THEN Tail(errors) ELSE errors
  /\ childErr' = [childErr EXCEPT ![r] = CancelChild(@)]
  /\ ctxErr' = ParentAfterCancel(ctxErr)
  /\ runPc' = [runPc EXCEPT ![r] = "wgWait"]
  /\ UNCHANGED <<options, kind, worker, nWorkers, size, closed, queue, queueClosed,
                 sem, semClosed, errorsClosed, runRet, wpc, wjob,
                 closePc, closeRet, nextJob, pushRet, started, finished,
                 failed, firstPosted, postedLive, panic,
                 runCloseRet, rvars, tvars>>

\* faulty variant of WorkersDone: Run does not wait for its worker loops
WorkersDoneNoWait(r) == TRUE

\* every worker loop of Run call r has returned (the WaitGroup is at zero)
WorkersDone(r) == \A w \in Slots : wpc[<<r, w>>] \in {"none", "exited"}

\* wg.Wait() returns; q.close() begins with its CompareAndSwap
RunWgWait(r) ==
  /\ panic = "none"
  /\ runPc[r] = "wgWait"
  /\ WorkersDone(r)
  /\ runPc' = [runPc EXCEPT ![r] = "close"]
  /\ UNCHANGED <<options, kind, worker, nWorkers, size, closed, queue, queueClosed,
                 sem, semClosed, errors, errorsClosed, ctxErr, runErr,
                 runRet, childErr, wpc, wjob, closePc, closeRet, nextJob,
                 pushRet, started, finished, failed, firstPosted, postedLive, panic,
                 runCloseRet, rvars, tvars>>

\* faulty variant of ClosesErrors: q.errors is closed whatever close() returned
ClosesErrorsAlways(k, won) == k = "ErrQueue"

\* Run closes q.errors: ErrQueue.Run does "if q.close() { close(q.errors) }",
\* Queue.Run has no such channel
ClosesErrors(k, won) == k = "ErrQueue" /\ won

RunCloseCAS(r) ==
  /\ panic = "none"
  /\ runPc[r] = "close"
  /\ closed' = TRUE
  /\ runPc' = [runPc EXCEPT ![r] =
                 IF CompareAndSwap(closed) THEN "closeQueue"
                 ELSE IF ClosesErrors(kind, FALSE) THEN "closeErrors"
                 ELSE "return"]
  /\ runCloseRet' = [runCloseRet EXCEPT ![r] =
                       IF CompareAndSwap(closed) THEN @ ELSE "false"]
  /\ UNCHANGED <<options, kind, worker, nWorkers, size, queue, queueClosed, sem,
                 semClosed, errors, errorsClosed, ctxErr, runErr, runRet,
                 childErr, wpc, wjob, closePc, closeRet, nextJob, pushRet,
                 started, finished, failed, firstPosted, postedLive, panic,
                 rvars, tvars>>

RunCloseQueue(r) ==
  /\ panic = "none"
  /\ runPc[r] = "closeQueue"
  /\ IF queueClosed
       THEN panic' = "close of closed channel" /\ UNCHANGED <<queueClosed, runPc>>
       ELSE /\ queueClosed' = TRUE
            /\ runPc' = [runPc EXCEPT ![r] = "closeSem"]
            /\ UNCHANGED panic
  /\ UNCHANGED <<options, kind, worker, nWorkers, size, closed, queue, sem,
                 semClosed, errors, errorsClosed, ctxErr, runErr, runRet,
                 childErr, wpc, wjob, closePc, closeRet, nextJob, pushRet,
                 started, finished, failed, firstPosted, postedLive,
                 runCloseRet, rvars, tvars>>

\* close(q.sem); q.close() returns true.  ErrQueue.Run then closes q.errors
RunCloseSem(r) ==
  /\ panic = "none"
  /\ runPc[r] = "closeSem"
  /\ IF semClosed
       THEN /\ panic' = "close of closed channel"
            /\ UNCHANGED <<semClosed, runPc, runCloseRet>>
       ELSE /\ semClosed' = TRUE
            /\ runCloseRet' = [runCloseRet EXCEPT ![r] = "true"]
            /\ runPc' = [runPc EXCEPT ![r] =
                           IF ClosesErrors(kind, TRUE) THEN "closeErrors"
                           ELSE "return"]
            /\ UNCHANGED panic
  /\ UNCHANGED <<options, kind, worker, nWorkers, size, closed, queue, queueClosed,
                 sem, errors, errorsClosed, ctxErr, runErr, runRet, childErr,
                 wpc, wjob, closePc, closeRet, nextJob, pushRet, started,
                 finished, failed, firstPosted, postedLive,
                 rvars, tvars>>

\* ErrQueue.Run: "if q.close() { close(q.errors) }"
RunCloseErrors(r) ==
  /\ panic = "none"
  /\ runPc[r] = "closeErrors"
  /\ IF errorsClosed
       THEN panic' = "close of closed channel" /\ UNCHANGED <<errorsClosed, runPc>>
       ELSE /\ errorsClosed' = TRUE
            /\ runPc' = [runPc EXCEPT ![r] = "return"]
            /\ UNCHANGED panic
  /\ UNCHANGED <<options, kind, worker, nWorkers, size, closed, queue, queueClosed,
                 sem, semClosed, errors, ctxErr, runErr, runRet, childErr,
                 wpc, wjob, closePc, closeRet, nextJob, pushRet, started,
                 finished, failed, firstPosted, postedLive,
                 runCloseRet, rvars, tvars>>

\* faulty variant of QueueRunResult: context.Canceled is returned like any other
QueueRunResultRaw(ctxerr) == ctxerr

\* the value Queue.Run returns: ctx.Err() unless nil or context.Canceled
QueueRunResult(ctxerr) ==
  IF ctxerr /= Nil /\ ctxerr /= Canceled THEN ctxerr ELSE Nil

\* the value ErrQueue.Run returns: the received error, else as Queue.Run
ErrQueueRunResult(err, ctxerr) ==
  IF err /= Nil THEN err
  ELSE IF ctxerr /= Nil /\ ctxerr /= Canceled THEN ctxerr
  ELSE Nil

\* Run returns (ErrQueue.Run: the deferred cancel() runs)
RunReturn(r) ==
  /\ panic = "none"
  /\ runPc[r] = "return"
  /\ runRet' = [runRet EXCEPT ![r] =
                  IF kind = "Queue" THEN QueueRunResult(RunCtxErr(r))
                  ELSE ErrQueueRunResult(runErr[r], RunCtxErr(r))]
  /\ childErr' = [childErr EXCEPT ![r] =
                    IF kind = "ErrQueue" THEN CancelChild(@) ELSE @]
  /\ ctxErr' = IF kind = "ErrQueue" THEN ParentAfterCancel(ctxErr) ELSE ctxErr
  /\ runPc' = [runPc EXCEPT ![r] = "returned"]
  /\ UNCHANGED <<options, kind, worker, nWorkers, size, closed, queue, queueClosed,
                 sem, semClosed, errors, errorsClosed, runErr, wpc,
                 wjob, closePc, closeRet, nextJob, pushRet, started,
                 finished, failed, firstPosted, postedLive, panic,
                 runCloseRet, rvars, tvars>>

\* ----------------------------------------------------------- runWorker
\* faulty variant of QueueReady: a buffered job does not wake the receiver
QueueReadyWhenClosed == queueClosed

\* a receive on q.queue is ready: a buffered job, or the channel closed
QueueReady == queue /= <<>> \/ queueClosed

\* runWorker's select takes "case <-ctx.Done()": the loop returns
WorkerSelectDone(r, w) ==
  /\ panic = "none"
  /\ wpc[<<r, w>>] = "select"
  /\ CtxDone(r)
  /\ wpc' = [wpc EXCEPT ![<<r, w>>] = "exited"]
  /\ UNCHANGED <<options, kind, worker, nWorkers, size, closed, queue, queueClosed,
                 sem, semClosed, errors, errorsClosed, ctxErr, runPc, runErr,
                 runRet, childErr, wjob, closePc, closeRet, nextJob, pushRet,
                 started, finished, failed, firstPosted, postedLive, panic,
                 runCloseRet, rvars, tvars>>

\* faulty variant of RecvValue: the newest job is received
RecvValueLast(buf) == IF buf /= <<>> THEN buf[Len(buf)] ELSE ZeroJob

\* a receive on a closed or non-empty channel: the value received (the
\* zero value when the channel is closed and drained) ...
RecvValue(buf) == IF buf /= <<>> THEN Head(buf) ELSE ZeroJob

\* faulty variant of RecvRest: the received job stays in the channel
RecvRestKeeps(buf) == buf

\* ... and what stays in the channel
RecvRest(buf) == IF buf /= <<>> THEN Tail(buf) ELSE buf

\* runWorker's select takes "case job := <-q.queue.queue"
WorkerSelectJob(r, w) ==
  /\ panic = "none"
  /\ wpc[<<r, w>>] = "select"
  /\ QueueReady
  /\ wjob' = [wjob EXCEPT ![<<r, w>>] = RecvValue(queue)]
  /\ queue' = RecvRest(queue)
  /\ wpc' = [wpc EXCEPT ![<<r, w>>] = "acquire"]
  /\ UNCHANGED <<options, kind, worker, nWorkers, size, closed, queueClosed, sem,
                 semClosed, errors, errorsClosed, ctxErr, runPc, runErr,
                 runRet, childErr, closePc, closeRet, nextJob, pushRet,
                 started, finished, failed, firstPosted, postedLive, panic,
                 runCloseRet, rvars, tvars>>

\* faulty variant of SendOutcome: a send that goes through on a full channel
SendOutcomeNeverBlocks(n, cap, isClosed) ==
  IF isClosed THEN "panic" ELSE "ok"

\* a blocking send on a channel holding n of cap values
SendOutcome(n, cap, isClosed) ==
  IF isClosed THEN "panic"
  ELSE IF n < cap THEN "ok"
  ELSE "block"

\* "q.sem <- struct{}{}", then the call of q.worker(ctx, job) begins
WorkerAcquire(r, w) ==
  /\ panic = "none"
  /\ wpc[<<r, w>>] = "acquire"
  /\ LET out == SendOutcome(sem, newQueue([Workers |-> nWorkers, Size |-> size]).semCap,
                            semClosed) IN
       /\ out /= "block"
       /\ IF out = "panic"
            THEN /\ panic' = "runWorker: send on closed channel"
                 /\ UNCHANGED <<sem, wpc, started>>
            ELSE /\ sem' = sem + 1
                 /\ wpc' = [wpc EXCEPT ![<<r, w>>] = "invoke"]
                 /\ started' = [started EXCEPT ![wjob[<<r, w>>]] = Count(@)]
                 /\ UNCHANGED panic
  /\ UNCHANGED <<options, kind, worker, nWorkers, size, closed, queue, queueClosed,
                 semClosed, errors, errorsClosed, ctxErr, runPc, runErr,
                 runRet, childErr, wjob, closePc, closeRet, nextJob, pushRet,
                 finished, failed, firstPosted, postedLive,
                 runCloseRet, rvars, tvars>>

\* faulty variant of Release: the permit is not given back
ReleaseKeeps(n) == n

\* faulty variant of Release: the permit channel is drained
ReleaseAll(n) == 0

\* "<-q.sem" (the deferred release): one value leaves the channel
Release(n) == IF n > 0 THEN n - 1 ELSE n

\* what the worker function may return for a job
WorkerResults(job) == IF kind = "Queue" THEN {Nil} ELSE {Nil, WorkerErr(job)}

\* where the loop of ErrQueue.runWorker goes once the error is sent: the
\* "return" leaves the inner function only, the for loop goes on
AfterPost == "select"

\* q.worker(ctx, job) returns res; without an error the permit is released
\* and the loop goes back to its select
WorkerReturn(r, w, res) ==
  /\ panic = "none"
  /\ wpc[<<r, w>>] = "invoke"
  /\ res \in WorkerResults(wjob[<<r, w>>])
  /\ finished' = [finished EXCEPT ![wjob[<<r, w>>]] = Count(@)]
  /\ IF res = Nil
       THEN /\ sem' = Release(sem)
            /\ wpc' = [wpc EXCEPT ![<<r, w>>] = "select"]
            /\ UNCHANGED failed
       ELSE /\ wpc' = [wpc EXCEPT ![<<r, w>>] = "post"]
            /\ failed' = failed \cup {wjob[<<r, w>>]}
            /\ UNCHANGED sem
  /\ UNCHANGED <<options, kind, worker, nWorkers, size, closed, queue, queueClosed,
                 semClosed, errors, errorsClosed, ctxErr, runPc, runErr,
                 runRet, childErr, wjob, closePc, closeRet, nextJob, pushRet,
                 started, firstPosted, postedLive, panic,
                 runCloseRet, rvars, tvars>>

\* ErrQueue.runWorker: "q.errors <- err", then the deferred release
WorkerPost(r, w) ==
  /\ panic = "none"
  /\ wpc[<<r, w>>] = "post"
  /\ LET out == SendOutcome(Len(errors), NewErrQueueErrorsCap([queueCap |-> size]),
                            errorsClosed)
         err == WorkerErr(wjob[<<r, w>>]) IN
       /\ out /= "block"
       /\ IF out = "panic"
            THEN /\ panic' = "runWorker: send on closed channel"
                 /\ UNCHANGED <<errors, firstPosted, postedLive, sem, wpc>>
            ELSE /\ errors' = Append(errors, err)
                 /\ firstPosted' = IF firstPosted = Nil THEN err ELSE firstPosted
                 /\ postedLive' = IF firstPosted = Nil THEN ctxErr = Nil ELSE postedLive
                 /\ sem' = Release(sem)
                 /\ wpc' = [wpc EXCEPT ![<<r, w>>] = AfterPost]
                 /\ UNCHANGED panic
  /\ UNCHANGED <<options, kind, worker, nWorkers, size, closed, queue, queueClosed,
                 semClosed, errorsClosed, ctxErr, runPc, runErr, runRet,
                 childErr, wjob, closePc, closeRet, nextJob, pushRet,
                 started, finished, failed,
                 runCloseRet, rvars, tvars>>

\* ------------------------------------------------- the queue's behaviour
\* NewQueue / NewErrQueue with Options{Workers: w, Size: s}, w in W and s
\* in S, nothing run
QInitOf(W, S) ==
  /\ kind \in {"Queue", "ErrQueue"}
  /\ worker \in BOOLEAN
  /\ \E w \in W, s \in S :
       LET q == newQueue([Workers |-> w, Size |-> s]) IN
         /\ options = [Workers |-> w, Size |-> s]
         /\ nWorkers = q.nWorkers
         /\ size = q.queueCap
  /\ closed = FALSE
  /\ queue = <<>>
  /\ queueClosed = FALSE
  /\ sem = 0
  /\ semClosed = FALSE
  /\ errors = <<>>
  /\ errorsClosed = FALSE
  /\ ctxErr = Nil
  /\ runPc = [r \in Runs |-> "idle"]
  /\ runErr = [r \in Runs |-> Nil]
  /\ runRet = [r \in Runs |-> Nil]
  /\ childErr = [r \in Runs |-> Nil]
  /\ wpc = [x \in Runs \X Slots |-> "none"]
  /\ wjob = [x \in Runs \X Slots |-> ZeroJob]
  /\ closePc = [c \in Closers |-> "idle"]
  /\ closeRet = [c \in Closers |-> "none"]
  /\ runCloseRet = [r \in Runs |-> "none"]
  /\ nextJob = 1
  /\ pushRet = [j \in Jobs |-> "none"]
  /\ started = [j \in 0..MaxJobs |-> 0]
  /\ finished = [j \in 0..MaxJobs |-> 0]
  /\ failed = {}
  /\ firstPosted = Nil
  /\ postedLive = FALSE
  /\ panic = "none"

\* the same with both options given (above zero)
QInit == QInitOf(1..MaxWorkers, 1..MaxSize)

\* the caller's context ends; a producer pushes the next job
EnvSteps ==
  \/ \E e \in {Canceled, DeadlineExceeded} : CtxCancel(e)
  \/ \E j \in Jobs : Push(j)

\* a direct call of close()
CloseSteps ==
  \/ \E c \in Closers : CloseCAS(c)
  \/ \E c \in Closers : CloseQueue(c)
  \/ \E c \in Closers : CloseSem(c)

\* the Run calls in R and the worker loops they start
RunSteps(R) ==
  \/ \E r \in R : RunStart(r)
  \/ \E r \in R : QueueRunDone(r)
  \/ \E r \in R : ErrQueueRunDone(r)
  \/ \E r \in R : ErrQueueRunErr(r)
  \/ \E r \in R : RunWgWait(r)
  \/ \E r \in R : RunCloseCAS(r)
  \/ \E r \in R : RunCloseQueue(r)
  \/ \E r \in R : RunCloseSem(r)
  \/ \E r \in R : RunCloseErrors(r)
  \/ \E r \in R : RunReturn(r)
  \/ \E r \in R, w \in Slots : WorkerSelectDone(r, w)
  \/ \E r \in R, w \in Slots : WorkerSelectJob(r, w)
  \/ \E r \in R, w \in Slots : WorkerAcquire(r, w)
  \/ \E r \in R, w \in Slots : WorkerReturn(r, w, Nil)
  \/ \E r \in R, w \in Slots : WorkerReturn(r, w, WorkerErr(wjob[<<r, w>>]))
  \/ \E r \in R, w \in Slots : WorkerPost(r, w)

\* =================================================================== Runner
MaxWaits == 2
Waits == 1..MaxWaits

\* context.WithCancelCause: cancel(cause) on a context that has not ended
\* sets Err() to Canceled and the cause to `cause` (Canceled when nil); on
\* a context that has ended it does nothing
CancelCauseErr(err) == IF err = Nil THEN Canceled ELSE err

\* faulty variant of CancelCause: a later cancel call replaces the cause
CancelCauseOverwrites(err, cause, with) ==
  IF with = Nil THEN Canceled ELSE with

\* faulty variant of CancelCause: the cancel function is called without its cause
CancelCauseDropsCause(err, cause, with) ==
  IF err /= Nil THEN cause ELSE Canceled

CancelCause(err, cause, with) ==
  IF err /= Nil THEN cause
  ELSE IF with = Nil THEN Canceled
  ELSE with

\* NewRunner(ctx)
RInit ==
  /\ parentErr = Nil
  /\ gctxErr = Nil
  /\ gctxCause = Nil
  /\ gerr = Nil
  /\ errOnce = "new"
  /\ wg = 0
  /\ tpc = [t \in Tasks |-> "idle"]
  /\ waitPc = [k \in Waits |-> "idle"]
  /\ waitRet = [k \in Waits |-> Nil]
  /\ waitSaw = [k \in Waits |-> {}]
  /\ failOrder = <<>>
  /\ errWrites = 0
  /\ gctxBy = "none"

\* the parent context ends with condition e; the derived context ends with
\* it, with the parent's cause, unless it has ended already
ParentCancel(e) ==
  /\ parentErr = Nil
  /\ parentErr' = e
  /\ gctxErr' = IF gctxErr = Nil THEN e ELSE gctxErr
  /\ gctxCause' = IF gctxErr = Nil THEN e ELSE gctxCause
  /\ gctxBy' = IF gctxErr = Nil THEN "parent" ELSE gctxBy
  /\ UNCHANGED <<gerr, errOnce, wg, tpc, waitPc, waitRet, waitSaw,
                 failOrder, errWrites, qvars, tvars>>

\* the tasks whose Run call has been made
Launched == {t \in Tasks : tpc[t] /= "idle"}

\* no call of Wait has got past wg.Wait() with the counter at zero (Run
\* after that is a misuse of the WaitGroup and of the Runner)
MayRun == \A k \in Waits : waitPc[k] = "idle" \/ (waitPc[k] = "waiting" /\ wg > 0)

\* Runner.Run(fn): wg.Add(1) and the goroutine is started; tasks are
\* registered in the order 1, 2, ...
RunnerRun(t) ==
  /\ tpc[t] = "idle"
  /\ \A u \in Tasks : u < t => tpc[u] /= "idle"
  /\ MayRun
  /\ wg' = wg + 1
  /\ tpc' = [tpc EXCEPT ![t] = "running"]
  /\ UNCHANGED <<parentErr, gctxErr, gctxCause, gerr, errOnce, waitPc,
                 waitRet, waitSaw, failOrder, errWrites, gctxBy, qvars, tvars>>

\* faulty variant of AfterSuccess: g.cancel is called when fn returns nil too
AfterSuccessCancels == "cancel"

\* where the goroutine goes when fn returned nil: past the "if err != nil"
\* block, to its deferred wg.Done()
AfterSuccess == "exit"

\* fn() returns nil: the goroutine goes to its deferred wg.Done()
TaskSucceed(t) ==
  /\ tpc[t] = "running"
  /\ tpc' = [tpc EXCEPT ![t] = AfterSuccess]
  /\ UNCHANGED <<parentErr, gctxErr, gctxCause, gerr, errOnce, wg, waitPc,
                 waitRet, waitSaw, failOrder, errWrites, gctxBy, qvars, tvars>>

\* fn() returns an error: the goroutine goes to g.errOnce.Do
TaskFail(t) ==
  /\ tpc[t] = "running"
  /\ tpc' = [tpc EXCEPT ![t] = "failed"]
  /\ UNCHANGED <<parentErr, gctxErr, gctxCause, gerr, errOnce, wg, waitPc,
                 waitRet, waitSaw, failOrder, errWrites, gctxBy, qvars, tvars>>

\* faulty variant of OnceRuns: every Do runs the body
OnceRunsAlways(once) == TRUE

\* sync.Once.Do: the body runs when no Do has begun it
OnceRuns(once) == once = "new"

\* g.errOnce.Do(...) of a failing task: the first call runs the body and
\* assigns g.err; a call made while the body runs waits for it to end; a
\* call made after it returns at once
TaskOnceDo(t) ==
  /\ tpc[t] = "failed"
  /\ errOnce /= "running"
  /\ IF OnceRuns(errOnce)
       THEN /\ errOnce' = "running"
            /\ gerr' = TaskErr(t)
            /\ errWrites' = Count(errWrites)
            /\ tpc' = [tpc EXCEPT ![t] = "cancel"]
       ELSE /\ tpc' = [tpc EXCEPT ![t] = "exit"]
            /\ UNCHANGED <<errOnce, gerr, errWrites>>
  /\ failOrder' = Append(failOrder, t)
  /\ UNCHANGED <<parentErr, gctxErr, gctxCause, wg, waitPc, waitRet,
                 waitSaw, gctxBy, qvars, tvars>>

\* the rest of the body of the Once: g.cancel(g.err)
TaskOnceCancel(t) ==
  /\ tpc[t] = "cancel"
  /\ gctxErr' = CancelCauseErr(gctxErr)
  /\ gctxCause' = CancelCause(gctxErr, gctxCause, gerr)
  /\ gctxBy' = IF gctxErr = Nil THEN "cancel" ELSE gctxBy
  /\ errOnce' = "done"
  /\ tpc' = [tpc EXCEPT ![t] = "exit"]
  /\ UNCHANGED <<parentErr, gerr, wg, waitPc, waitRet, waitSaw, failOrder,
                 errWrites, qvars, tvars>>

\* the deferred g.wg.Done()
TaskDone(t) ==
  /\ tpc[t] = "exit"
  /\ wg' = wg - 1
  /\ tpc' = [tpc EXCEPT ![t] = "finished"]
  /\ UNCHANGED <<parentErr, gctxErr, gctxCause, gerr, errOnce, waitPc,
                 waitRet, waitSaw, failOrder, errWrites, gctxBy, qvars, tvars>>

\* Wait is called: it blocks in g.wg.Wait()
WaitCall(k) ==
  /\ waitPc[k] = "idle"
  /\ \A j \in Waits : j < k => waitPc[j] /= "idle"
  /\ waitPc' = [waitPc EXCEPT ![k] = "waiting"]
  /\ waitSaw' = [waitSaw EXCEPT ![k] = Launched]
  /\ UNCHANGED <<parentErr, gctxErr, gctxCause, gerr, errOnce, wg, tpc,
                 waitRet, failOrder, errWrites, gctxBy, qvars, tvars>>

\* faulty variant of WgWaitReturns: Wait does not wait for the counter
WgWaitReturnsAtOnce(counter) == TRUE

\* g.wg.Wait() returns when the counter is zero
WgWaitReturns(counter) == counter = 0

WaitWg(k) ==
  /\ waitPc[k] = "waiting"
  /\ WgWaitReturns(wg)
  /\ waitPc' = [waitPc EXCEPT ![k] = "cancel"]
  /\ UNCHANGED <<parentErr, gctxErr, gctxCause, gerr, errOnce, wg, tpc,
                 waitRet, waitSaw, failOrder, errWrites, gctxBy, qvars, tvars>>

\* faulty variant of WaitCancelErr: Wait returns without calling g.cancel
WaitCancelErrNoCancel(err) == err

\* Err() of the derived context after Wait's "g.cancel(g.err)" (g.cancel
\* is never nil: NewRunner sets it)
WaitCancelErr(err) == CancelCauseErr(err)

\* g.cancel(g.err), which changes the context only if it had not ended;
\* return g.err
WaitReturn(k) ==
  /\ waitPc[k] = "cancel"
  /\ gctxErr' = WaitCancelErr(gctxErr)
  /\ gctxCause' = IF WaitCancelErr(gctxErr) = gctxErr THEN gctxCause
                  ELSE CancelCause(gctxErr, gctxCause, gerr)
  /\ gctxBy' = IF WaitCancelErr(gctxErr) = gctxErr THEN gctxBy ELSE "cancel"
  /\ waitRet' = [waitRet EXCEPT ![k] = gerr]
  /\ waitPc' = [waitPc EXCEPT ![k] = "returned"]
  /\ UNCHANGED <<parentErr, gerr, errOnce, wg, tpc, waitSaw, failOrder,
                 errWrites, qvars, tvars>>

RNext ==
  \/ \E e \in {Canceled, DeadlineExceeded} : ParentCancel(e)
  \/ \E t \in Tasks : RunnerRun(t)
  \/ \E t \in Tasks : TaskSucceed(t)
  \/ \E t \in Tasks : TaskFail(t)
  \/ \E t \in Tasks : TaskOnceDo(t)
  \/ \E t \in Tasks : TaskOnceCancel(t)
  \/ \E t \in Tasks : TaskDone(t)
  \/ \E k \in Waits : WaitCall(k)
  \/ \E k \in Waits : WaitWg(k)
  \/ \E k \in Waits : WaitReturn(k)

\* ================================================================ Throttler
MaxCallers == 3
MaxInterval == 2
MaxClock == 4

Callers == 1..MaxCallers

\* the zero time.Time, which time.Now() never returns
ZeroTime == -1

\* NewThrottler(ival): lastRun is the zero time, the mutex is free
NewThrottler(ival) ==
  /\ interval = ival
  /\ lastRun = ZeroTime
  /\ mu = 0
  /\ clock = 0
  /\ apc = [c \in Callers |-> "idle"]
  /\ anow = [c \in Callers |-> 0]
  /\ aret = [c \in Callers |-> "none"]
  /\ retAt = [c \in Callers |-> 0]
  /\ aover = [c \in Callers |-> FALSE]
  /\ grants = <<>>
  /\ dpc = [c \in Callers |-> "idle"]
  /\ dcalls = [c \in Callers |-> 0]
  /\ doRet = [c \in Callers |-> "none"]

\* a Throttler with an interval above zero
TInit == \E ival \in 1..MaxInterval : NewThrottler(ival)

\* the wall clock advances
Tick ==
  /\ clock < MaxClock
  /\ clock' = clock + 1
  /\ UNCHANGED <<interval, lastRun, mu, apc, anow, aret, retAt, aover,
                 grants, dpc, dcalls, doRet, qvars, rvars>>

\* the calls of Allow that have begun and not returned
InFlight == {c \in Callers : apc[c] \in {"lock", "unlock"}}

\* "now := time.Now()", the first statement of Allow
AllowNow(c) ==
  /\ apc[c] = "idle"
  /\ anow' = [anow EXCEPT ![c] = clock]
  /\ apc' = [apc EXCEPT ![c] = "lock"]
  /\ aover' = [d \in Callers |->
                 IF d = c THEN InFlight /= {}
                 ELSE IF d \in InFlight THEN TRUE
                 ELSE aover[d]]
  /\ UNCHANGED <<interval, lastRun, mu, clock, aret, retAt, grants, dpc,
                 dcalls, doRet, qvars, rvars>>

\* t.lastRun.IsZero()
IsZero(t) == t = ZeroTime

\* faulty variant of Sub: the distance between the two instants
SubAbs(now, last) == IF now >= last THEN now - last ELSE last - now

\* now.Sub(t.lastRun)
Sub(now, last) == now - last

\* faulty variant of AllowDecision: every call is permitted
AllowDecisionAlways(last, now, ival) == TRUE

\* faulty variant of AllowDecision: a call exactly one interval later is refused
AllowDecisionStrict(last, now, ival) == ~(~IsZero(last) /\ Sub(now, last) <= ival)

\* the call is permitted: not "!t.lastRun.IsZero() && now.Sub(t.lastRun) <
\* t.interval"
AllowDecision(last, now, ival) == ~(~IsZero(last) /\ Sub(now, last) < ival)

\* faulty variant of NewLastRun: lastRun is assigned before the test
NewLastRunAlways(last, now, ok) == now

\* t.lastRun after the test: "t.lastRun = now" is reached only when the
\* call is permitted; "return false" comes before it
NewLastRun(last, now, ok) == IF ok THEN now ELSE last

\* t.mu.Lock() succeeds
MutexFree(m) == m = 0

\* t.mu.Lock(), and under the mutex the test and the assignment of lastRun
AllowLock(c) ==
  /\ apc[c] = "lock"
  /\ MutexFree(mu)
  /\ mu' = c
  /\ LET ok == AllowDecision(lastRun, anow[c], interval) IN
       /\ aret' = [aret EXCEPT ![c] = IF ok THEN "true" ELSE "false"]
       /\ lastRun' = NewLastRun(lastRun, anow[c], ok)
       /\ grants' = IF ok THEN Append(grants, anow[c]) ELSE grants
  /\ apc' = [apc EXCEPT ![c] = "unlock"]
  /\ UNCHANGED <<interval, clock, anow, retAt, aover, dpc, dcalls, doRet,
                 qvars, rvars>>

\* the deferred t.mu.Unlock(); Allow returns
AllowReturn(c) ==
  /\ apc[c] = "unlock"
  /\ mu' = 0
  /\ retAt' = [retAt EXCEPT ![c] = clock]
  /\ apc' = [apc EXCEPT ![c] = "returned"]
  /\ UNCHANGED <<interval, lastRun, clock, anow, aret, aover, grants, dpc,
                 dcalls, doRet, qvars, rvars>>

TNext ==
  \/ Tick
  \/ \E c \in Callers : AllowNow(c)
  \/ \E c \in Callers : AllowLock(c)
  \/ \E c \in Callers : AllowReturn(c)

\* ------------------------------------------------------------ Throttler.Do
\* Do(fn) is called: it calls t.Allow()
DoCall(c) ==
  /\ dpc[c] = "idle"
  /\ apc[c] = "idle"
  /\ dpc' = [dpc EXCEPT ![c] = "allow"]
  /\ UNCHANGED <<interval, lastRun, mu, clock, apc, anow, aret, retAt,
                 aover, grants, dcalls, doRet, qvars, rvars>>

\* the call of Allow that Do makes begins
DoAllowNow(c) ==
  /\ dpc[c] = "allow"
  /\ AllowNow(c)

\* faulty variant of DoInvokes: fn is invoked whatever Allow returned
DoInvokesAlways(allowed) == TRUE

\* "if t.Allow() { fn(); return true }": fn is invoked when Allow returned true
DoInvokes(allowed) == allowed = "true"

\* Allow has returned: Do invokes fn, or returns false
DoBranch(c) ==
  /\ dpc[c] = "allow"
  /\ apc[c] = "returned"
  /\ IF DoInvokes(aret[c])
       THEN /\ dcalls' = [dcalls EXCEPT ![c] = @ + 1]
            /\ dpc' = [dpc EXCEPT ![c] = "fn"]
            /\ UNCHANGED doRet
       ELSE /\ doRet' = [doRet EXCEPT ![c] = "false"]
            /\ dpc' = [dpc EXCEPT ![c] = "returned"]
            /\ UNCHANGED dcalls
  /\ UNCHANGED <<interval, lastRun, mu, clock, apc, anow, aret, retAt,
                 aover, grants, qvars, rvars>>

\* fn() returns; Do returns true
DoReturn(c) ==
  /\ dpc[c] = "fn"
  /\ doRet' = [doRet EXCEPT ![c] = "true"]
  /\ dpc' = [dpc EXCEPT ![c] = "returned"]
  /\ UNCHANGED <<interval, lastRun, mu, clock, apc, anow, aret, retAt,
                 aover, grants, dcalls, qvars, rvars>>

DNext ==
  \/ Tick
  \/ \E c \in Callers : DoCall(c)
  \/ \E c \in Callers : DoAllowNow(c)
  \/ \E c \in Callers : AllowLock(c)
  \/ \E c \in Callers : AllowReturn(c)
  \/ \E c \in Callers : DoBranch(c)
  \/ \E c \in Callers : DoReturn(c)

\* the Throttler as built, with no call of Allow
TIdle == TInit /\ interval = 1

\* ========================================================= specifications
vars == <<qvars, rvars, tvars>>

\* a queue, its producers, the caller's context and one call of Run
Init == QInit /\ RInit /\ TIdle

Next == EnvSteps \/ RunSteps({1})

Spec == Init /\ [][Next]_vars

\* the same with a direct caller of close()
NextClose == EnvSteps \/ CloseSteps \/ RunSteps({1})

SpecClose == Init /\ [][NextClose]_vars

\* several concurrent calls of Run on a queue with one worker per call
TwoRunWorkers == 1

Init2 == QInit /\ RInit /\ TIdle /\ worker = TRUE /\ nWorkers = TwoRunWorkers

Next2 == EnvSteps \/ RunSteps(Runs)

Spec2 == Init2 /\ [][Next2]_vars

\* two concurrent calls of Run, a concurrent caller of close() (a direct
\* call, or the q.close() of a further call of Run whose loops have
\* exited) and a producer of one job
NextClose2 ==
  \/ \E e \in {Canceled, DeadlineExceeded} : CtxCancel(e)
  \/ Push(1)
  \/ CloseSteps
  \/ RunSteps(Runs)

Spec2Close == Init2 /\ [][NextClose2]_vars

\* a Runner, its tasks and the callers of Wait (the queue stays as built)
RunnerInit ==
  /\ QInit /\ kind = "Queue" /\ worker = TRUE /\ nWorkers = 1 /\ size = 1
  /\ RInit
  /\ TIdle

RunnerNext == RNext

RunnerSpec == RunnerInit /\ [][RunnerNext]_vars

\* one caller of Run that calls it again once the call before has returned,
\* next to the producers, the context and the direct caller of close()
RunAgain(r) ==
  /\ r > 1
  /\ runPc[r - 1] \in {"rejected", "returned"}
  /\ RunStart(r)

NextRerun ==
  \/ EnvSteps
  \/ CloseSteps
  \/ RunSteps({1})
  \/ \E r \in Runs : RunAgain(r)

SpecRerun == Init /\ [][NextRerun]_vars

\* a Throttler, the wall clock and concurrent callers of Allow (the queue
\* and the Runner stay as built)
ThrottlerInit ==
  /\ QInit /\ kind = "Queue" /\ worker = TRUE /\ nWorkers = 1 /\ size = 1
  /\ RInit
  /\ TInit

ThrottlerNext == TNext

ThrottlerSpec == ThrottlerInit /\ [][ThrottlerNext]_vars

\* a Throttler built with interval 0 and concurrent callers of Allow
ThrottlerZeroInit ==
  /\ QInit /\ kind = "Queue" /\ worker = TRUE /\ nWorkers = 1 /\ size = 1
  /\ RInit
  /\ NewThrottler(0)

ThrottlerZeroSpec == ThrottlerZeroInit /\ [][ThrottlerNext]_vars

\* a Throttler built with any interval from 0 up and concurrent callers of
\* Allow
ThrottlerAnyInit == ThrottlerInit \/ ThrottlerZeroInit

ThrottlerAnySpec == ThrottlerAnyInit /\ [][ThrottlerNext]_vars

\* a Throttler and concurrent callers of Do
DoNext == DNext

DoSpec == ThrottlerInit /\ [][DoNext]_vars

\* a queue built with options left out (zero) or negative as well, then
\* used as in Spec
NewQueueInit ==
  /\ QInitOf((-1)..MaxWorkers, (-1)..MaxSize)
  /\ RInit
  /\ TIdle

NewQueueSpec == NewQueueInit /\ [][Next]_vars

\* Spec with a fair scheduler: Run and its worker loops are goroutines, and
\* one of them that can take a step is eventually run
LiveSpec == Init /\ [][Next]_vars /\ WF_vars(RunSteps({1}))

\* ================================================================= claims
\* the worker-function invocations in progress
InProgress == Cardinality({x \in Runs \X Slots : wpc[x] = "invoke"})

\* the jobs Push accepted
Accepted == {j \in Jobs : pushRet[j] = "true"}

\* job j is in the buffer
InQueue(j) == \E i \in 1..Len(queue) : queue[i] = j

\* the tasks of the Runner whose fn returned an error
FailedTasks ==
  {t \in Tasks : tpc[t] = "failed"} \cup {failOrder[i] : i \in 1..Len(failOrder)}

\* C1 (as claimed): a Push made once the queue is closed (the flag is set
\* and close() has closed both channels, called directly or by Run) returns
\* false, and so does not panic.
C1_PushAfterCloseReturnsFalse ==
  [][\A j \in Jobs : (closed /\ queueClosed /\ semClosed /\ Push(j))
                        => pushRet'[j] = "false"]_vars

\* C2: the number of worker-function invocations in progress never exceeds
\* Workers, also when several Run calls share the queue.
C2_AtMostWorkersInProgress == InProgress <= nWorkers

\* C2 witness: Workers invocations are in progress while the loop of
\* another Run call holds a job and waits for a permit.
C2_Witness ==
  /\ InProgress = nWorkers
  /\ \E x \in Runs \X Slots : wpc[x] = "acquire"
  /\ sem = nWorkers

\* C3 (as claimed): when a worker error was sent on the error channel before
\* the caller's context ended, ErrQueue.Run returns that first error.
C3_RunReturnsFirstPostedError ==
  (kind = "ErrQueue" /\ runPc[1] = "returned" /\ firstPosted /= Nil /\ postedLive)
    => runRet[1] = firstPosted

\* C4 (as claimed): when Queue.Run returns, every accepted job (there being
\* at least Workers of them) has been passed to the worker exactly once.
C4_AllJobsProcessedOnce ==
  (kind = "Queue" /\ runPc[1] = "returned" /\ Cardinality(Accepted) >= nWorkers)
    => \A j \in Accepted : started[j] = 1

\* C4 (amended): when Queue.Run returns, every accepted job has either been
\* passed to the worker exactly once and completed, or is still in the
\* buffer and was never passed; no job is passed twice and nothing that was
\* not accepted is passed.
C4_JobsOnceOrStillBuffered ==
  (kind = "Queue" /\ runPc[1] = "returned") =>
    /\ started[ZeroJob] = 0
    /\ \A j \in Jobs :
         IF j \in Accepted
           THEN \/ started[j] = 1 /\ finished[j] = 1 /\ ~InQueue(j)
                \/ started[j] = 0 /\ InQueue(j)
           ELSE started[j] = 0 /\ ~InQueue(j)

\* C4 witness: Run has returned with one accepted job processed once and
\* another left in the buffer.
C4_Witness ==
  /\ kind = "Queue" /\ runPc[1] = "returned"
  /\ \E j \in Accepted : started[j] = 1 /\ finished[j] = 1
  /\ \E j \in Accepted : started[j] = 0 /\ InQueue(j)

\* C5: Runner.err is assigned at most once, it is the error of the first
\* failing task to report (completion order), and Wait returns it; Wait
\* returns nil exactly when no launched task returned an error.
C5_FirstErrorWins ==
  /\ errWrites <= 1
  /\ gerr = (IF failOrder = <<>> THEN Nil ELSE TaskErr(failOrder[1]))
  /\ \A k \in Waits : waitPc[k] = "returned" =>
       /\ waitRet[k] = gerr
       /\ waitRet[k] = Nil <=> FailedTasks = {}

\* C5 witness: Wait returned the error of task 2 although task 1, registered
\* first, failed too, and the parent context was cancelled.
C5_Witness ==
  /\ \E k \in Waits : waitPc[k] = "returned" /\ waitRet[k] = TaskErr(2)
  /\ 1 \in FailedTasks
  /\ parentErr /= Nil

\* C6 (as claimed): once a failing task has made its cancel call, the
\* derived context has ended and its cause is the captured error, whatever
\* the order of the parent's cancellation and the failure.
C6_CauseIsFirstError ==
  errOnce = "done" => (gctxErr /= Nil /\ gctxCause = gerr)

\* C6 (amended): once a failing task has made its cancel call the derived
\* context has ended, for good; its cause is the captured error when that
\* call ended it, and the parent's condition when the parent had ended it
\* before.
C6_CauseIsFirstErrorUnlessParentFirst ==
  errOnce = "done" =>
    /\ gctxErr /= Nil
    /\ IF gctxBy = "parent"
         THEN gctxCause = parentErr /\ gctxErr = parentErr
         ELSE gctxCause = gerr /\ gctxErr = Canceled

\* C6 witness: a task failed, its cancel call ended the derived context, the
\* parent was cancelled later and Wait has returned.
C6_Witness ==
  /\ errOnce = "done" /\ gctxBy = "cancel" /\ gctxCause = gerr
  /\ parentErr /= Nil
  /\ \E k \in Waits : waitPc[k] = "returned"

\* C7: once wg.Wait() has let a call of Wait through, no task is in flight:
\* the counter is zero and every task launched before the call has ended.
C7_WaitReturnsAfterTasks ==
  \A k \in Waits : waitPc[k] \in {"cancel", "returned"} =>
    /\ wg = 0
    /\ \A t \in waitSaw[k] : tpc[t] = "finished"
    /\ \A t \in Tasks : tpc[t] \in {"idle", "finished"}

\* C7 witness: Wait returned having been called with all tasks launched.
C7_Witness ==
  \E k \in Waits : waitPc[k] = "returned" /\ waitSaw[k] = Tasks

\* C8: after Wait has returned the derived context has ended.
C8_CancelledAfterWait ==
  \A k \in Waits : waitPc[k] = "returned" => gctxErr /= Nil

\* C8 witness: Wait returned nil, no task failed, the parent was not
\* cancelled, and the derived context was ended by Wait.
C8_Witness ==
  /\ \E k \in Waits : waitPc[k] = "returned" /\ waitRet[k] = Nil
  /\ Launched /= {} /\ FailedTasks = {}
  /\ parentErr = Nil /\ gctxErr = Canceled /\ gctxBy = "cancel"

\* C9: Queue.Run gets past <-ctx.Done() only with the context ended; from
\* its close() on, every worker loop has returned and no invocation is in
\* progress; the closed flag is set only then, and is set when Run returns.
C9_RunReturnsAfterWorkers ==
  kind = "Queue" =>
    /\ runPc[1] \in {"wgWait", "close", "closeQueue", "closeSem", "return", "returned"}
         => ctxErr /= Nil
    /\ runPc[1] \in {"close", "closeQueue", "closeSem", "return", "returned"}
         => /\ \A w \in Slots : wpc[<<1, w>>] = IF w <= nWorkers THEN "exited" ELSE "none"
            /\ InProgress = 0
            /\ sem = 0
    /\ closed => runPc[1] \in {"closeQueue", "closeSem", "return", "returned"}
    /\ runPc[1] = "returned" => closed /\ queueClosed /\ semClosed

\* C9 witness: Queue.Run with two workers returned after a job was processed.
C9_Witness ==
  /\ kind = "Queue" /\ runPc[1] = "returned" /\ nWorkers = 2
  /\ \E j \in Jobs : finished[j] = 1

\* C10: with no worker error, Run returns nil when the caller's context
\* ended with context.Canceled and the context's error otherwise.
C10_RunResultFollowsContext ==
  (runPc[1] = "returned" /\ failed = {}) =>
    /\ ctxErr /= Nil
    /\ runRet[1] = (IF ctxErr = Canceled THEN Nil ELSE ctxErr)

\* C10 witness: ErrQueue.Run returned the deadline error, no worker failed.
C10_Witness ==
  /\ kind = "ErrQueue" /\ runPc[1] = "returned" /\ failed = {}
  /\ ctxErr = DeadlineExceeded /\ runRet[1] = DeadlineExceeded
  /\ \E j \in Jobs : finished[j] = 1

\* C11: a call of Run (Queue and ErrQueue) made with the closed flag set,
\* by a direct close() or by an earlier Run, returns "queue is closed"; the
\* call starts no worker loop, invokes no worker function and takes no job
\* out of the buffer, and a rejected call never has a worker loop.
C11_RunOnClosedQueueRejected ==
  /\ [](\A r \in Runs : runPc[r] = "rejected" =>
          \A w \in Slots : wpc[<<r, w>>] = "none")
  /\ [][\A r \in Runs : (closed /\ RunStart(r)) =>
          /\ runPc'[r] = "rejected"
          /\ runRet'[r] = ErrQueueClosed
          /\ wpc' = wpc
          /\ started' = started
          /\ queue' = queue]_vars

\* C11 witness: the second call of Run was rejected as closed after the
\* first had returned, a job being left in the buffer.
C11_Witness ==
  /\ runPc[1] = "returned"
  /\ \A c \in Closers : closePc[c] = "idle"
  /\ runPc[2] = "rejected" /\ runRet[2] = ErrQueueClosed
  /\ queue /= <<>>
  /\ \A w \in Slots : wpc[<<2, w>>] = "none"

\* C12: a call of Run (Queue and ErrQueue) on an open queue built with a
\* nil worker function returns "worker must be provided" and starts no
\* worker loop; closed stays false and every accepted job stays buffered.
C12_RunWithoutWorkerRejected ==
  (~worker /\ runPc[1] /= "idle") =>
    /\ runPc[1] = "rejected"
    /\ runRet[1] = ErrNoWorker
    /\ \A x \in Runs \X Slots : wpc[x] = "none"
    /\ ~closed /\ ~queueClosed /\ ~semClosed /\ ~errorsClosed
    /\ Len(queue) = Cardinality(Accepted)
    /\ \A j \in Accepted : InQueue(j)
    /\ \A j \in 0..MaxJobs : started[j] = 0

\* C12 witness: ErrQueue.Run was rejected for its nil worker and two
\* accepted jobs are in the buffer.
C12_Witness ==
  /\ kind = "ErrQueue" /\ ~worker
  /\ runPc[1] = "rejected" /\ runRet[1] = ErrNoWorker
  /\ Len(queue) = 2

\* C13: on an open queue Push does not block: it returns true and appends
\* the job exactly when fewer than Size jobs are buffered, and returns false
\* and leaves the buffer as it is when Size jobs are buffered; so the first
\* Size pushes, with no draining, succeed.
C13_PushTrueIffRoom ==
  /\ []((~closed /\ panic = "none" /\ nextJob <= MaxJobs) => ENABLED Push(nextJob))
  /\ []((runPc[1] = "idle" /\ ~closed) =>
          \A j \in Jobs : pushRet[j] /= "none" =>
            pushRet[j] = (IF j <= size THEN "true" ELSE "false"))
  /\ [][\A j \in Jobs : (~closed /\ Push(j)) =>
          IF Len(queue) < size
            THEN pushRet'[j] = "true" /\ queue' = Append(queue, j)
            ELSE pushRet'[j] = "false" /\ queue' = queue]_vars

\* C13 witness: with nothing drained, Size = 2 pushes were accepted and
\* the next one returned false, the buffer holding the two accepted jobs.
C13_Witness ==
  /\ runPc[1] = "idle" /\ ~closed /\ size = 2
  /\ pushRet[1] = "true" /\ pushRet[2] = "true" /\ pushRet[3] = "false"
  /\ queue = <<1, 2>>

\* the calls of close() that won the CompareAndSwap: those in the teardown
\* and those that returned true
Teardowns ==
  {<<"close", c>> : c \in {d \in Closers :
       closePc[d] \in {"closeQueue", "closeSem"} \/ closeRet[d] = "true"}}
  \cup
  {<<"Run", r>> : r \in {x \in Runs :
       runPc[x] \in {"closeQueue", "closeSem"} \/ runCloseRet[x] = "true"}}

\* C14: the closed flag is set at most once and never cleared; of the
\* calls of close() (direct, or made by Run) exactly one does the teardown
\* of the buffer and the permits and returns true, the others return false;
\* no channel is closed twice, and a call in its teardown can always go on.
C14_CloseTearsDownOnce ==
  /\ [][closed => closed']_vars
  /\ [](Cardinality(Teardowns) <= 1)
  /\ [](closed <=> Teardowns /= {})
  /\ [](queueClosed \/ semClosed => closed)
  /\ [](panic /= "close of closed channel")
  /\ [](\A c \in Closers : closeRet[c] = "true" => queueClosed /\ semClosed)
  /\ [](\A c \in Closers :
          (panic = "none" /\ closePc[c] \in {"idle", "closeQueue", "closeSem"})
            => ENABLED (CloseCAS(c) \/ CloseQueue(c) \/ CloseSem(c)))
  /\ [](\A r \in Runs :
          (panic = "none" /\ runPc[r] \in {"close", "closeQueue", "closeSem"})
            => ENABLED (RunCloseCAS(r) \/ RunCloseQueue(r) \/ RunCloseSem(r)))

\* C14 witness: the direct call and the call made by Run overlap: the
\* direct call is in its teardown, between the two channels, when Run's
\* call has already returned false.
C14_Witness ==
  /\ \E c \in Closers : closePc[c] = "closeSem"
  /\ runCloseRet[1] = "false"
  /\ queueClosed /\ ~semClosed /\ panic = "none"

\* C15 (as claimed): a worker loop of ErrQueue whose invocation returned an
\* error is done once it has posted it: it takes no other job from the
\* buffer.
C15_FailedLoopTakesNoJob ==
  [][\A r \in Runs, w \in Slots :
       (kind = "ErrQueue" /\ wjob[<<r, w>>] \in failed) => ~WorkerSelectJob(r, w)]_vars

\* C16 (as claimed): once a worker has posted an error (the caller's context
\* being live), ErrQueue.Run goes on until it has returned: while it has
\* not, Run or one of its worker loops can take a step (no loop is left
\* blocked on the error channel with Run waiting for it).
C16_RunReturnsAfterError ==
  (kind = "ErrQueue" /\ firstPosted /= Nil /\ postedLive /\ panic = "none") =>
    (runPc[1] = "returned" \/ ENABLED RunSteps({1}))

Returned == {c \in Callers : apc[c] = "returned"}

Permitted == {c \in Returned : aret[c] = "true"}

\* the calls made so far all fall within less than one interval: from the
\* earliest clock reading to the latest return
WithinOneInterval ==
  \A c, d \in Returned : retAt[d] - anow[c] < interval

\* C18: on a fresh Throttler, when N >= 1 concurrent calls of Allow, all
\* within less than one interval, have returned, exactly one of them has
\* returned true, whatever the order of their clock reads and of their
\* acquisitions of the mutex.
C18_OneTruePerWindow ==
  (Returned /= {} /\ InFlight = {} /\ WithinOneInterval)
    => Cardinality(Permitted) = 1

\* C18 witness: three overlapping calls returned within less than one
\* interval, and the permitted one read the clock later than a refused one.
C18_Witness ==
  /\ Returned = Callers /\ WithinOneInterval
  /\ \A c \in Callers : aover[c]
  /\ \E c, d \in Callers : aret[c] = "true" /\ aret[d] = "false" /\ anow[d] < anow[c]

C20_SequentialAllow ==
  [][\A c \in Callers : (~aover[c] /\ AllowLock(c)) =>
       LET ok == \/ grants = <<>>
                 \/ anow[c] - grants[Len(grants)] >= interval
       IN  /\ aret'[c] = (IF ok THEN "true" ELSE "false")
           /\ lastRun' = (IF ok THEN anow[c] ELSE lastRun)
           /\ grants' = (IF ok THEN Append(grants, anow[c]) ELSE grants)]_vars

\* C20 witness: three calls one after the other: the first returned true,
\* the second, sooner than interval after it, false, and the third, at
\* least interval after the first, true.
C20_Witness ==
  /\ Returned = Callers /\ \A c \in Callers : ~aover[c]
  /\ \E c, d, e \in Callers :
       /\ aret[c] = "true" /\ aret[d] = "false" /\ aret[e] = "true"
       /\ anow[c] <= anow[d] /\ anow[d] - anow[c] < interval
       /\ retAt[d] <= anow[e] /\ anow[e] - anow[c] >= interval

\* C21 (as claimed): with interval 0 every call of Allow returns true,
\* whatever the order of the clock reads and the lock acquisitions.
C21_ZeroIntervalAllowsAll ==
  interval = 0 => \A c \in Returned : aret[c] = "true"

\* the invocations of fn made so far by the calls of Do
FnInvocations == {c \in Callers : dcalls[c] > 0}

\* C22: Do returns true exactly when its call of Allow returned true, and
\* then fn has been invoked exactly once; when Do returns false, and while
\* Allow has not returned, fn has not been invoked; so the invocations of
\* fn are as many as the calls of Do that returned true or are inside fn.
C22_DoInvokesIffAllowed ==
  /\ \A c \in Callers :
       /\ doRet[c] = "true" => aret[c] = "true" /\ dcalls[c] = 1
       /\ doRet[c] = "false" => aret[c] = "false" /\ dcalls[c] = 0
       /\ dpc[c] = "returned" => doRet[c] = aret[c]
       /\ dpc[c] = "fn" => aret[c] = "true" /\ dcalls[c] = 1
       /\ dpc[c] \in {"idle", "allow"} => dcalls[c] = 0
  /\ Cardinality(FnInvocations)
       = Cardinality({c \in Callers : doRet[c] = "true" \/ dpc[c] = "fn"})

\* C22 witness: three calls of Do have returned, two of them true and one
\* false, and fn was invoked twice.
C22_Witness ==
  /\ \A c \in Callers : dpc[c] = "returned"
  /\ Cardinality({c \in Callers : doRet[c] = "true"}) = 2
  /\ Cardinality({c \in Callers : doRet[c] = "false"}) = 1
  /\ Cardinality(FnInvocations) = 2

\* C23: while no launched task has failed, no call of Wait has completed
\* and the parent context has not ended, the derived context has not ended;
\* a task that returns nil, and its wg.Done(), leave the derived context as
\* it is.
C23_NotCancelledWithoutCause ==
  /\ []((FailedTasks = {} /\ parentErr = Nil
          /\ \A k \in Waits : waitPc[k] /= "returned")
         => (gctxErr = Nil /\ gctxCause = Nil /\ gctxBy = "none"))
  /\ [][\A t \in Tasks : (TaskSucceed(t) \/ TaskDone(t))
          => (gctxErr' = gctxErr /\ gctxCause' = gctxCause)]_vars

\* C23 witness: all tasks were launched and have ended without an error, a
\* call of Wait is past wg.Wait() and has not returned, and the derived
\* context is live.
C23_Witness ==
  /\ \A t \in Tasks : tpc[t] = "finished"
  /\ FailedTasks = {} /\ parentErr = Nil
  /\ \E k \in Waits : waitPc[k] = "cancel"
  /\ \A k \in Waits : waitPc[k] /= "returned"
  /\ gctxErr = Nil

\* C24: the worker count is Options.Workers when above zero, else the
\* number of CPUs; the buffer capacity is Options.Size when above zero,
\* else four times the worker count; the permit channel has the capacity of
\* the worker count and the error channel that of the buffer, and no
\* channel ever holds more than its capacity.
C24_EffectiveOptions ==
  /\ nWorkers = (IF options.Workers > 0 THEN options.Workers ELSE NumCPU)
  /\ size = (IF options.Size > 0 THEN options.Size ELSE 4 * nWorkers)
  /\ newQueue(options).semCap = nWorkers
  /\ NewErrQueueErrorsCap(newQueue(options)) = size
  /\ Len(queue) <= size /\ sem <= nWorkers /\ Len(errors) <= size

\* C24 witness: an ErrQueue built with both options zero has one worker
\* loop and room for four jobs: three jobs were accepted, the second is
\* being processed and the error of the first is in the error channel.
C24_Witness ==
  /\ options = [Workers |-> 0, Size |-> 0] /\ kind = "ErrQueue"
  /\ nWorkers = 1 /\ size = 4
  /\ Accepted = Jobs /\ Len(errors) = 1 /\ InProgress = 1 /\ sem = 1

\* C25 (as claimed): once the caller's context has ended, a Run that has
\* started (Queue or ErrQueue) goes on until it has returned: while it has
\* not, Run or one of its worker loops can take a step, whatever is in the
\* buffer and whatever the producers do.
C25_CancelledRunGoesOn ==
  (ctxErr /= Nil /\ panic = "none"
     /\ runPc[1] \notin {"idle", "rejected", "returned"})
    => ENABLED RunSteps({1})

\* C26: a job that Push accepted, Queue.Run being active, is eventually
\* passed to the worker function, unless the context is cancelled.
C26_AcceptedJobEventuallyPassed ==
  \A j \in Jobs :
    (kind = "Queue" /\ runPc[1] = "wait" /\ pushRet[j] = "true")
      ~> (started[j] >= 1 \/ ctxErr /= Nil)

\* C26 witness: Queue.Run is active, its context live, and every job, the
\* last one accepted while Run was active, has been passed to the worker.
C26_Witness ==
  /\ kind = "Queue" /\ runPc[1] = "wait" /\ ctxErr = Nil
  /\ Accepted = Jobs
  /\ \A j \in Jobs : started[j] = 1 /\ finished[j] = 1

\* the worker loops that hold a permit while handing over an error
Posting == {x \in Runs \X Slots : wpc[x] = "post"}

C28_AcquireNeverWaits ==
  \A x \in Runs \X Slots :
    (wpc[x] = "acquire" /\ panic = "none") =>
      /\ sem < nWorkers
      /\ SendOutcome(sem, newQueue(options).semCap, semClosed) = "ok"
      /\ ENABLED WorkerAcquire(x[1], x[2])

\* C28 witness: with two workers, one loop is about to acquire while the
\* other holds a permit, its invocation in progress.
C28_Witness ==
  /\ nWorkers = 2 /\ sem = 1 /\ InProgress = 1
  /\ \E x \in Runs \X Slots : wpc[x] = "acquire"

\* Run is past its wait for the worker loops
PastWgWait ==
  runPc[1] \in {"close", "closeQueue", "closeSem", "closeErrors", "return",
                "returned"}

\* C29 (as claimed): once ErrQueue.Run has received a worker error and
\* cancelled its child context, no worker loop takes a job out of the
\* buffer to invoke the worker function on it.
C29_NoInvocationAfterError ==
  [][\A r \in Runs, w \in Slots :
       (kind = "ErrQueue" /\ runErr[1] /= Nil) => ~WorkerSelectJob(r, w)]_vars

\* C29 (amended): after that cancellation an invocation can still start,
\* but only in a loop that has not taken the cancellation: a loop that has
\* exited stays so, and once Run is past its wait for the loops every loop
\* has exited, no invocation is in progress and none starts; the jobs
\* still buffered then are not passed to the worker.
C29_NoInvocationAfterLoopsExit ==
  /\ [](PastWgWait => /\ InProgress = 0
                      /\ \A x \in Runs \X Slots : wpc[x] \in {"none", "exited"})
  /\ [][PastWgWait => started' = started]_vars
  /\ [][\A x \in Runs \X Slots : wpc[x] = "exited" => wpc'[x] = "exited"]_vars
  /\ [][\A r \in Runs, w \in Slots :
          (WorkerAcquire(r, w) /\ started' /= started)
            => (wpc[<<r, w>>] = "acquire" /\ runPc[1] \in {"wait", "wgWait"})]_vars

\* C29 witness: ErrQueue.Run received the error of a job, cancelled, and
\* has returned it, a job that was never passed to the worker being left
\* in the buffer.
C29_Witness ==
  /\ kind = "ErrQueue" /\ runPc[1] = "returned" /\ runErr[1] /= Nil
  /\ runRet[1] = runErr[1]
  /\ \E j \in Accepted : InQueue(j) /\ started[j] = 0

\* the oldest job in the buffer
Oldest == CHOOSE j \in Accepted : InQueue(j) /\ \A i \in Accepted : InQueue(i) => j <= i

\* C30: the buffer holds the accepted jobs in acceptance order (the order
\* of their numbers) and a receive takes the oldest; so each loop takes jobs
\* in acceptance order, and with Workers = 1 an invocation starts only
\* when those of all jobs accepted earlier have started.
C30_FifoPerWorker ==
  /\ [](\A i, k \in 1..Len(queue) : i < k => queue[i] < queue[k])
  /\ [][\A r \in Runs, w \in Slots :
          (WorkerSelectJob(r, w) /\ queue /= <<>>) =>
            /\ wjob'[<<r, w>>] = Oldest
            /\ wjob'[<<r, w>>] > wjob[<<r, w>>]
            /\ ~\E i \in 1..Len(queue') : queue'[i] = Oldest]_vars
  /\ [][\A r \in Runs, w \in Slots :
          (nWorkers = 1 /\ WorkerAcquire(r, w)) =>
            \A j \in Accepted : j < wjob[<<r, w>>] => started[j] = 1]_vars

\* C30 witness: with two workers the invocation of job 2 has started, and
\* ended, while job 1, taken first by the other loop, has not started.
C30_Witness ==
  /\ nWorkers = 2 /\ started[2] = 1 /\ finished[2] = 1 /\ started[1] = 0
  /\ \E x \in Runs \X Slots : wpc[x] = "acquire" /\ wjob[x] = 1

\* C31: Runner: once the derived context has a cancellation cause, no later
\* step changes it (a cancel call of a later failing task or of Wait, a
\* second call of Wait, the parent ending); the captured error, once
\* assigned, is not changed either; and a call of Wait that returns after
\* another call of Wait has returned gives the value that one gave.
C31_CauseSetOnce ==
  [][ /\ (gctxCause /= Nil => gctxCause' = gctxCause)
      /\ (gerr /= Nil => gerr' = gerr)
      /\ \A k \in Waits : waitPc[k] = "returned" =>
           /\ waitRet'[k] = waitRet[k]
           /\ \A j \in Waits : waitPc'[j] = "returned" =>
                waitRet'[j] = waitRet[k]
    ]_vars

\* two tasks failed, the first one's error is the cause, and two calls of
\* Wait have returned after making their cancel call on the ended context
C31_Witness ==
  /\ Len(failOrder) >= 2
  /\ gerr /= Nil
  /\ gctxCause = gerr
  /\ \A k \in Waits : waitPc[k] = "returned" /\ waitRet[k] = gerr

\* C32: ErrQueue.Run cancels only the child context it derives: the
\* caller's context changes in no step of Run or of its worker loops,
\* neither when Run cancels on a worker error nor when its deferred
\* cancel runs at the return; it ends only when the caller ends it.
C32_CallerContextUntouched ==
  [][ (kind = "ErrQueue" /\ ctxErr' /= ctxErr) =>
        \E e \in {Canceled, DeadlineExceeded} : CtxCancel(e) ]_vars

\* Run has returned the error of a worker, its child context is cancelled
\* and the caller's context is still live
C32_Witness ==
  /\ kind = "ErrQueue"
  /\ runPc[1] = "returned"
  /\ runRet[1] /= Nil
  /\ runErr[1] /= Nil
  /\ childErr[1] = Canceled
  /\ ctxErr = Nil

\* the loops that have taken job j from the buffer and whose call of the
\* worker function for it has not returned
Holding(j) ==
  {x \in Runs \X Slots : wjob[x] = j /\ wpc[x] \in {"acquire", "invoke"}}

\* C33: Queue and ErrQueue, in every reachable state: the worker function
\* is never called with the zero value or with a job Push did not accept,
\* no job is passed to it more than once, and every accepted job is in
\* exactly one place: still in the buffer, in progress with one worker
\* loop, or completed.
C33_JobsAccountedFor ==
  /\ started[ZeroJob] = 0
  /\ \A j \in Jobs :
       IF j \in Accepted
         THEN \/ InQueue(j) /\ Holding(j) = {} /\ started[j] = 0
              \/ ~InQueue(j) /\ Cardinality(Holding(j)) = 1
                   /\ started[j] <= 1 /\ finished[j] = 0
              \/ ~InQueue(j) /\ Holding(j) = {}
                   /\ started[j] = 1 /\ finished[j] = 1
         ELSE started[j] = 0 /\ ~InQueue(j) /\ Holding(j) = {}

\* C34: the buffer and the permit channel are closed only when no worker
\* loop of any Run on the queue is active: no loop takes the receive case
\* of its select on a closed buffer, and no loop sends on a closed permit
\* channel (with a second Run called while the first is active, or
\* close() called during a Run).
C34_NoLoopUsesClosedChannel ==
  [][ \A x \in Runs \X Slots :
        /\ (wpc[x] = "select" /\ wpc'[x] = "acquire") => ~queueClosed
        /\ (wpc[x] = "acquire" /\ (wpc'[x] /= "acquire" \/ panic' /= panic))
             => ~semClosed
    ]_vars

\* some call of Run on the queue has returned
SomeRunReturned == \E r \in Runs : runPc[r] = "returned"

\* C35: once a call of Run has returned, the worker function is not called
\* again for the queue (so the jobs then in the buffer are never passed to
\* it); the error Run received, or its absence, is fixed from the moment
\* its select chose, whatever is posted later; and the value Run returned
\* does not change.
C35_NoInvocationAfterReturn ==
  [][ /\ SomeRunReturned => started' = started
      /\ \A r \in Runs :
           /\ runPc[r] \notin {"idle", "wait"} => runErr'[r] = runErr[r]
           /\ runPc[r] = "returned" => runRet'[r] = runRet[r]
           /\ (runPc[r] = "return" /\ runPc'[r] = "returned") =>
                runRet'[r] = IF runErr[r] /= Nil THEN runErr[r]
                             ELSE QueueRunResult(RunCtxErr(r))
    ]_vars

\* call c of Allow gets its result in this step
Decides(c, res) == aret[c] = "none" /\ aret'[c] = res

\* C36: Throttler, interval >= 0, any interleaving of callers: a call of
\* Allow that returns false leaves lastRun as it was; lastRun changes only
\* in a call that returns true, which records its own reading of the
\* clock; lastRun never decreases, and a value recorded over an earlier
\* recorded one is at least interval later than it.
C36_LastRunOnlyByPermitted ==
  [][ /\ \A c \in Callers : Decides(c, "false") => lastRun' = lastRun
      /\ lastRun' /= lastRun =>
           \E c \in Callers : Decides(c, "true") /\ lastRun' = anow[c]
      /\ lastRun' >= lastRun
      /\ \A c \in Callers :
           (Decides(c, "true") /\ ~IsZero(lastRun)) =>
             lastRun' >= lastRun + interval
    ]_vars

\* lastRun has been recorded twice, the second value an interval or more
\* after the first, and a call that overlapped another was refused
C36_Witness ==
  /\ interval >= 1
  /\ Len(grants) >= 2
  /\ lastRun = grants[Len(grants)]
  /\ lastRun >= grants[1] + interval
  /\ \E c \in Callers : aret[c] = "false" /\ aover[c]

====
